---------------------------- MODULE Spec2Model ----------------------------
(***************************************************************************)
(* PairDebias (learning_algorithm/pairwise_debias.py): the Pairwise        *)
(* Debiasing algorithm.  The model covers construction of the graph        *)
(* (__init__), the pairwise loss assembly, the closed-form propensity      *)
(* update, the optimizer step and the step dispatcher (step).              *)
(*                                                                         *)
(* Numbers.  A float is a pair <<n, d>> of naturals read as n/d in lowest  *)
(* terms: <<0,0>> is NaN, <<1,0>> is +Inf.  Every quantity of the loss     *)
(* assembly is non-negative (relu, a cross-entropy, quotients of those),   *)
(* so no sign is carried.  + * / are exact with the IEEE-754 rules for     *)
(* 0, Inf and NaN; rounding of + * / is not modelled.  tf.pow is rounded   *)
(* upward to PowGrid fractional steps.                                     *)
(***************************************************************************)
EXTENDS Integers, Sequences, FiniteSets, TLC

\* Bounds of the model.
MaxSteps == 2
PowGrid == 2

----------------------------------------------------------------------------
(* Float arithmetic *)

NaN == <<0, 0>>
PInf == <<1, 0>>
Zero == <<0, 1>>
One == <<1, 1>>

RECURSIVE GCD(_, _)
GCD(a, b) == IF b = 0 THEN a ELSE GCD(b, a % b)

Norm(n, d) ==
    IF d = 0 THEN (IF n = 0 THEN NaN ELSE PInf)
    ELSE LET g == GCD(n, d) IN <<n \div g, d \div g>>

Float(n) == <<n, 1>>
IsNaN(x) == x = NaN
IsInf(x) == x = PInf
IsFinite(x) == x[2] # 0
IsPositive(x) == x[1] > 0

\* x / y: 0/0, Inf/Inf and anything with NaN give NaN; x/0 = Inf for x > 0;
\* x/Inf = 0 for finite x.
FDiv(x, y) == Norm(x[1] * y[2], x[2] * y[1])

\* x * y: 0 * Inf = NaN.
FMul(x, y) == Norm(x[1] * y[1], x[2] * y[2])

\* x + y: NaN absorbs, then Inf absorbs (no negative operand exists).
FAdd(x, y) ==
    IF IsNaN(x) \/ IsNaN(y) THEN NaN
    ELSE IF IsInf(x) \/ IsInf(y) THEN PInf
    ELSE Norm(x[1] * y[2] + y[1] * x[2], x[2] * y[2])

RECURSIVE IPow(_, _)
IPow(b, e) == IF e = 0 THEN 1 ELSE b * IPow(b, e - 1)

\* The least k with (k / PowGrid)^m >= n/d.
RECURSIVE CeilRoot(_, _, _, _)
CeilRoot(k, n, d, m) ==
    IF IPow(k, m) * d >= n * IPow(PowGrid, m) THEN k ELSE CeilRoot(k + 1, n, d, m)

\* tf.pow(x, 1/(p+1)) for x >= 0; p + 1 = 0 never gets here (the exponent's
\* own division raises while the graph is built).
FPow(x, p) ==
    LET m == IF p + 1 > 0 THEN p + 1 ELSE -(p + 1)
        root == IF IsNaN(x) THEN NaN
                ELSE IF IsInf(x) THEN PInf
                ELSE IF x[1] = 0 THEN Zero
                ELSE IF m = 1 THEN x
                ELSE Norm(CeilRoot(1, x[1], x[2], m), PowGrid)
    IN IF p + 1 > 0 THEN root ELSE FDiv(One, root)

\* tf.nn.relu on a label difference.
Relu(v) == IF v > 0 THEN v ELSE 0

----------------------------------------------------------------------------
(* Configurations: exp_settings['learning_algorithm_hparams'], data_set and  *)
(* the forward_only flag of __init__.  The float hyperparameters are in      *)
(* hundredths (learning_rate 5 is 0.05).                                     *)

DefaultHParams ==
    [learning_rate |-> 5, max_gradient_norm |-> 500, regulation_p |-> 2,
     l2_loss |-> 0, grad_strategy |-> "ada"]

\* rank_list_size is data_set.rank_list_size; batch, max_label and score_vecs
\* describe the feeds the driver builds from the data set: batch sizes
\* 1..batch, labels 0..max_label, and the scores the ranking model gives them
\* (1: every position 0; 2: also the top position at 1).
Experiments ==
    { [forward_only |-> FALSE, rank_list_size |-> 2, batch |-> 2, max_label |-> 1,
       score_vecs |-> 2, hparams |-> DefaultHParams],
      [forward_only |-> FALSE, rank_list_size |-> 3, batch |-> 2, max_label |-> 1,
       score_vecs |-> 1, hparams |-> [DefaultHParams EXCEPT !.max_gradient_norm = 0]],
      [forward_only |-> FALSE, rank_list_size |-> 2, batch |-> 1, max_label |-> 2,
       score_vecs |-> 2, hparams |-> [DefaultHParams EXCEPT !.regulation_p = 0]],
      [forward_only |-> TRUE, rank_list_size |-> 2, batch |-> 1, max_label |-> 1,
       score_vecs |-> 2, hparams |-> DefaultHParams],
      [forward_only |-> FALSE, rank_list_size |-> 2, batch |-> 1, max_label |-> 1,
       score_vecs |-> 2,
       hparams |-> [learning_rate |-> -5, max_gradient_norm |-> -100,
                    regulation_p |-> -3, l2_loss |-> -1, grad_strategy |-> "bogus"]],
      [forward_only |-> FALSE, rank_list_size |-> 2, batch |-> 1, max_label |-> 1,
       score_vecs |-> 2, hparams |-> [DefaultHParams EXCEPT !.regulation_p = -1]] }

Pos(n) == 0 .. (n - 1)

\* Score vectors over the score levels 0 and 1.
ScoreVecs(n, m) == { [k \in Pos(n) |-> IF k = 0 THEN top ELSE 0] : top \in 0 .. (m - 1) }

\* What a step is fed: labels[i][b] and the scores output[i][b] the ranking
\* model computes from the fed features.
Feeds(e) ==
    UNION { { [labels |-> lab, output |-> [k \in Pos(e.rank_list_size) |-> [x \in 1 .. b |-> v[k]]]]
              : lab \in [Pos(e.rank_list_size) -> [1 .. b -> 0 .. e.max_label]],
                v \in ScoreVecs(e.rank_list_size, e.score_vecs) }
            : b \in 1 .. e.batch }

\* Feeds of an evaluation: the labels only enter the metrics.
EvalFeeds(e) ==
    { f \in Feeds(e) : \A k \in Pos(e.rank_list_size) :
                          \A b \in DOMAIN f.labels[k] : f.labels[k][b] = 0 }

----------------------------------------------------------------------------
VARIABLES
    built,              \* "none", "train", "forward", "failed": how __init__ ended
    exp,                \* the configuration __init__ was called with
    t_plus, t_minus,    \* self.t_plus, self.t_minus: position -> float
    global_step,        \* self.global_step
    params,             \* the trainable weight of the ranking model
    labels, output,     \* the fed labels and the scores self.output of the last run
    splitted_t_plus, splitted_t_minus,   \* tensors of the last run
    pair_loss, t_plus_loss, t_minus_loss, loss,
    ret,                \* what step returned: <<loss, outputs, summary>>
    pc, ran,            \* session.run: "idle"/"running", graph operations executed
    pre,                \* history: <<t_plus, t_minus>> when the last run began
    n_calls, n_train    \* history: step calls, completed train steps

vars == <<built, exp, t_plus, t_minus, global_step, params, labels, output,
          splitted_t_plus, splitted_t_minus, pair_loss, t_plus_loss,
          t_minus_loss, loss, ret, pc, ran, pre, n_calls, n_train>>

\* An optional value: <<>> is None, <<v>> is v.
None == <<>>
Some(v) == <<v>>

----------------------------------------------------------------------------
(* Pairwise loss assembly (__init__, the graph that step runs) *)

\* BasicAlgorithm.pairwise_cross_entropy_loss on two score levels, in tenths:
\* max(a,0) - a*sigmoid(b) + log(1 + exp(-|a|)); log 2 is 7/10.
pairwise_cross_entropy_loss(a, b) ==
    IF a = 0 THEN <<7, 10>> ELSE IF b = 0 THEN <<4, 5>> ELSE <<3, 5>>

\* Mutant of valid_pair_mask: the absolute difference in place of relu.
valid_pair_mask_abs(lab, i, j, b) ==
    IF lab[i][b] >= lab[j][b] THEN lab[i][b] - lab[j][b] ELSE lab[j][b] - lab[i][b]

\* tf.nn.relu(self.labels[i] - self.labels[j]), batch element b.
valid_pair_mask(lab, i, j, b) == Relu(lab[i][b] - lab[j][b])

BatchSize(lab) == Len(lab[0])

RECURSIVE reduce_sum(_, _, _, _, _)
reduce_sum(lab, out, i, j, b) ==
    IF b = 0 THEN Zero
    ELSE FAdd(reduce_sum(lab, out, i, j, b - 1),
              FMul(Float(valid_pair_mask(lab, i, j, b)),
                   pairwise_cross_entropy_loss(out[i][b], out[j][b])))

\* pair_loss of the ordered pair (i, j).
PairLoss(lab, out, i, j) == reduce_sum(lab, out, i, j, BatchSize(lab))

OrderedPairs(n) == { pr \in Pos(n) \X Pos(n) : pr[1] # pr[2] }

PairLossTable(lab, out, n) ==
    [pr \in OrderedPairs(n) |-> PairLoss(lab, out, pr[1], pr[2])]

\* The k-th pair the two nested loops visit (k from 1), i == j skipped.
LoopPair(k, n) ==
    LET i == (k - 1) \div (n - 1)
        r == (k - 1) % (n - 1)
    IN <<i, IF r < i THEN r ELSE r + 1>>

NumPairs(n) == n * (n - 1)

\* Mutant of AddTPlus: divides by splitted_t_minus[i] in place of [j].
AddTPlusOwnPosition(acc, pl, tm, i, j) ==
    [acc EXCEPT ![i] = FAdd(@, FDiv(pl[<<i, j>>], tm[i]))]

\* Mutant of AddTMinus: accumulates at position i in place of j.
AddTMinusAtHigher(acc, pl, tp, i, j) ==
    [acc EXCEPT ![i] = FAdd(@, FDiv(pl[<<i, j>>], tp[i]))]

\* One pass of the loop body on each accumulator.
AddTPlus(acc, pl, tm, i, j) == [acc EXCEPT ![i] = FAdd(@, FDiv(pl[<<i, j>>], tm[j]))]
AddTMinus(acc, pl, tp, i, j) == [acc EXCEPT ![j] = FAdd(@, FDiv(pl[<<i, j>>], tp[i]))]
AddLoss(acc, pl, tp, tm, i, j) == FAdd(acc, FDiv(FDiv(pl[<<i, j>>], tp[i]), tm[j]))

\* t_plus_loss_list after the first k pairs: [i] += pair_loss / splitted_t_minus[j].
RECURSIVE TPlusLossList(_, _, _, _)
TPlusLossList(pl, tm, n, k) ==
    IF k = 0 THEN [x \in Pos(n) |-> Zero]
    ELSE AddTPlus(TPlusLossList(pl, tm, n, k - 1), pl, tm,
                  LoopPair(k, n)[1], LoopPair(k, n)[2])

\* t_minus_loss_list after the first k pairs: [j] += pair_loss / splitted_t_plus[i].
RECURSIVE TMinusLossList(_, _, _, _)
TMinusLossList(pl, tp, n, k) ==
    IF k = 0 THEN [x \in Pos(n) |-> Zero]
    ELSE AddTMinus(TMinusLossList(pl, tp, n, k - 1), pl, tp,
                   LoopPair(k, n)[1], LoopPair(k, n)[2])

\* self.loss after the first k pairs: += pair_loss / splitted_t_plus[i] / splitted_t_minus[j].
RECURSIVE PairwiseLoss(_, _, _, _, _)
PairwiseLoss(pl, tp, tm, n, k) ==
    IF k = 0 THEN Zero
    ELSE AddLoss(PairwiseLoss(pl, tp, tm, n, k - 1), pl, tp, tm,
                 LoopPair(k, n)[1], LoopPair(k, n)[2])

\* "Add l2 loss": hparams.l2_loss * tf.nn.l2_loss(p), only for l2_loss > 0.
AddL2Loss(l, hp, w) ==
    IF hp.l2_loss > 0 THEN FAdd(l, FMul(Norm(hp.l2_loss, 100), Norm(w * w, 2))) ELSE l

\* self.loss as step fetches it.
Loss(pl, tp, tm, n, hp, w) == AddL2Loss(PairwiseLoss(pl, tp, tm, n, NumPairs(n)), hp, w)

\* Mutant of UpdatePropensity: a zero pivot is replaced by 1 before dividing.
UpdatePropensityGuarded(list, n, hp) ==
    [k \in Pos(n) |->
        FPow(FDiv(list[k], IF list[0] = Zero THEN One ELSE list[0]), hp.regulation_p)]

\* The value t_plus.assign (from t_minus_loss_list) and t_minus.assign (from
\* t_plus_loss_list) store: pow(concat(list) / list[0], 1/(regulation_p + 1)).
UpdatePropensity(list, n, hp) ==
    [k \in Pos(n) |-> FPow(FDiv(list[k], list[0]), hp.regulation_p)]

\* tf.gradients(self.loss, params) for the single abstract weight, as 0 (a
\* zero gradient: no valid pair and no L2 term, the loss does not depend on
\* the weight) or 1 (anything else, NaN included).
Gradients(pl, hp) ==
    IF hp.l2_loss <= 0 /\ \A pr \in DOMAIN pl : pl[pr] = Zero THEN 0 ELSE 1

\* tf.clip_by_global_norm's norm, None when max_gradient_norm <= 0.
GradientNorm(hp, g) == IF hp.max_gradient_norm > 0 THEN Some(g) ELSE None

\* tf.clip_by_global_norm rescales a gradient and keeps a zero gradient zero.
ClipByGlobalNorm(g) == g

\* Mutant of Updates: the unclipped branch does not pass global_step.
UpdatesRawWithoutStep(hp, w, g, gs) ==
    IF hp.max_gradient_norm > 0
    THEN [params |-> w + g, global_step |-> gs + 1]
    ELSE [params |-> w + g, global_step |-> gs]

\* self.updates: opt.apply_gradients(..., global_step=self.global_step) on the
\* clipped gradients for max_gradient_norm > 0, on the raw ones otherwise.  A
\* zero gradient leaves the weight, any other moves it (the weight counts
\* those moves); the global step is incremented by the apply.
Updates(hp, w, g, gs) ==
    IF hp.max_gradient_norm > 0
    THEN [params |-> w + ClipByGlobalNorm(g), global_step |-> gs + 1]
    ELSE [params |-> w + g, global_step |-> gs + 1]

----------------------------------------------------------------------------
(* __init__ *)

Init ==
    /\ built = "none"
    /\ exp = [forward_only |-> FALSE, rank_list_size |-> 0, batch |-> 0,
              max_label |-> 0, score_vecs |-> 0, hparams |-> DefaultHParams]
    /\ t_plus = <<>> /\ t_minus = <<>>
    /\ global_step = 0
    /\ params = 0
    /\ labels = <<>> /\ output = <<>>
    /\ splitted_t_plus = <<>> /\ splitted_t_minus = <<>>
    /\ pair_loss = <<>> /\ t_plus_loss = <<>> /\ t_minus_loss = <<>>
    /\ loss = None
    /\ ret = [kind |-> "none", loss |-> None, outputs |-> None, norm |-> None]
    /\ pc = "idle" /\ ran = {}
    /\ pre = <<>>
    /\ n_calls = 0 /\ n_train = 0

N == exp.rank_list_size

tensors == <<labels, output, splitted_t_plus, splitted_t_minus, pair_loss,
             t_plus_loss, t_minus_loss, loss>>

\* HParams.parse takes any value of the right type; nothing checks
\* grad_strategy or a sign.  With forward_only nothing of the training graph
\* is built; without it, 1/(regulation_p + 1) is evaluated by Python while the
\* graph is built and raises ZeroDivisionError for regulation_p = -1.
PairDebias(e) ==
    /\ built = "none"
    /\ exp' = e
    /\ IF ~e.forward_only /\ e.hparams.regulation_p + 1 = 0
       THEN /\ built' = "failed"
            /\ UNCHANGED <<t_plus, t_minus, global_step, params>>
       ELSE /\ built' = IF e.forward_only THEN "forward" ELSE "train"
            /\ t_plus' = IF e.forward_only THEN <<>>
                         ELSE [k \in Pos(e.rank_list_size) |-> One]
            /\ t_minus' = IF e.forward_only THEN <<>>
                          ELSE [k \in Pos(e.rank_list_size) |-> One]
            /\ global_step' = 0
            /\ params' = 1
    /\ UNCHANGED <<tensors, ret, pc, ran, pre, n_calls, n_train>>

----------------------------------------------------------------------------
(* step *)

TrainOps == {"split_t_plus", "split_t_minus", "pair_loss", "t_plus_loss",
             "t_minus_loss", "loss", "assign_t_plus", "assign_t_minus",
             "updates", "train_summary"}
EvalOps == {"eval_summary", "output"}

\* step(forward_only=False) on a model built for training: one session.run of
\* [updates, loss, update_propensity_op, train_summary], here in one
\* topological order of the graph.
Train(f) ==
    /\ labels' = f.labels /\ output' = f.output
    /\ splitted_t_plus' = t_plus /\ splitted_t_minus' = t_minus
    /\ pair_loss' = PairLossTable(f.labels, f.output, N)
    /\ t_plus_loss' = TPlusLossList(pair_loss', splitted_t_minus', N, NumPairs(N))
    /\ t_minus_loss' = TMinusLossList(pair_loss', splitted_t_plus', N, NumPairs(N))
    /\ loss' = Some(Loss(pair_loss', splitted_t_plus', splitted_t_minus', N,
                         exp.hparams, params))
    /\ t_plus' = UpdatePropensity(t_minus_loss', N, exp.hparams)
    /\ t_minus' = UpdatePropensity(t_plus_loss', N, exp.hparams)
    /\ params' = Updates(exp.hparams, params, Gradients(pair_loss', exp.hparams),
                         global_step).params
    /\ global_step' = Updates(exp.hparams, params, Gradients(pair_loss', exp.hparams),
                              global_step).global_step
    /\ ret' = [kind |-> "train", loss |-> loss', outputs |-> None,
               norm |-> GradientNorm(exp.hparams, Gradients(pair_loss', exp.hparams))]
    /\ ran' = TrainOps
    /\ pre' = <<t_plus, t_minus>>
    /\ n_calls' = n_calls + 1 /\ n_train' = n_train + 1
    /\ UNCHANGED <<built, exp, pc>>

\* step(forward_only=False) on a model built with forward_only=True:
\* self.updates does not exist and the output feed raises AttributeError.
StepTrainRaises ==
    /\ built = "forward" /\ pc = "idle" /\ n_calls < MaxSteps
    /\ ret' = [kind |-> "AttributeError", loss |-> None, outputs |-> None, norm |-> None]
    /\ n_calls' = n_calls + 1
    /\ UNCHANGED <<built, exp, t_plus, t_minus, global_step, params, tensors,
                   pc, ran, pre, n_train>>

\* Mutant of Eval: the output feed of an evaluation also holds self.updates.
EvalRunsUpdates(f) ==
    /\ labels' = f.labels /\ output' = f.output
    /\ ret' = [kind |-> "eval", loss |-> None, outputs |-> Some(f.output), norm |-> None]
    /\ ran' = EvalOps
    /\ pre' = <<t_plus, t_minus>>
    /\ n_calls' = n_calls + 1
    /\ global_step' = global_step + 1
    /\ params' = params + 1
    /\ UNCHANGED <<built, exp, t_plus, t_minus,
                   splitted_t_plus, splitted_t_minus, pair_loss, t_plus_loss,
                   t_minus_loss, loss, pc, n_train>>

\* step(forward_only=True): one session.run of [eval_summary, output].
Eval(f) ==
    /\ labels' = f.labels /\ output' = f.output
    /\ ret' = [kind |-> "eval", loss |-> None, outputs |-> Some(f.output), norm |-> None]
    /\ ran' = EvalOps
    /\ pre' = <<t_plus, t_minus>>
    /\ n_calls' = n_calls + 1
    /\ UNCHANGED <<built, exp, t_plus, t_minus, global_step, params,
                   splitted_t_plus, splitted_t_minus, pair_loss, t_plus_loss,
                   t_minus_loss, loss, pc, n_train>>

\* step, atomically, by its forward_only argument.
StepTrain ==
    /\ built = "train" /\ pc = "idle" /\ n_calls < MaxSteps
    /\ \E f \in Feeds(exp) : Train(f)

StepEval ==
    /\ built \in {"train", "forward"} /\ pc = "idle" /\ n_calls < MaxSteps
    /\ \E f \in EvalFeeds(exp) : Eval(f)

Construct == \E e \in Experiments : PairDebias(e)

Next == Construct \/ StepTrain \/ StepTrainRaises \/ StepEval

Spec == Init /\ [][Next]_vars

----------------------------------------------------------------------------
(* session.run of a train step, one graph operation at a time.  TensorFlow  *)
(* runs an operation once all operations it takes a tensor from have run;   *)
(* operations with no path between them run in either order.               *)

\* Mutant of PlusOperand: the loss assembly reads the variable itself, at
\* whatever moment the reading operation runs.
PlusOperandVariable == [dep |-> {}, val |-> t_plus]

\* What the loss assembly divides by: the outputs of tf.split on the
\* variable, so it takes its value from the split operation.
PlusOperand == [dep |-> {"split_t_plus"}, val |-> splitted_t_plus]
MinusOperand == [dep |-> {"split_t_minus"}, val |-> splitted_t_minus]

Deps(op) ==
    CASE op = "split_t_plus" -> {}
      [] op = "split_t_minus" -> {}
      [] op = "pair_loss" -> {}
      [] op = "t_plus_loss" -> {"pair_loss"} \cup MinusOperand.dep
      [] op = "t_minus_loss" -> {"pair_loss"} \cup PlusOperand.dep
      [] op = "loss" -> {"pair_loss"} \cup PlusOperand.dep \cup MinusOperand.dep
      [] op = "assign_t_plus" -> {"t_minus_loss"}
      [] op = "assign_t_minus" -> {"t_plus_loss"}
      [] op = "updates" -> {"loss"}
      [] op = "train_summary" -> {"split_t_plus", "split_t_minus", "loss"}

Ready(op) == pc = "running" /\ op \notin ran /\ Deps(op) \subseteq ran

persistent == <<built, exp, t_plus, t_minus, global_step, params>>
history == <<ret, pc, pre, n_calls, n_train>>

RunBegin ==
    /\ built = "train" /\ pc = "idle" /\ n_calls < MaxSteps
    /\ \E f \in Feeds(exp) : labels' = f.labels /\ output' = f.output
    /\ pc' = "running" /\ ran' = {}
    /\ pre' = <<t_plus, t_minus>>
    /\ UNCHANGED <<persistent, splitted_t_plus, splitted_t_minus, pair_loss,
                   t_plus_loss, t_minus_loss, loss, ret, n_calls, n_train>>

OpSplitTPlus ==
    /\ Ready("split_t_plus") /\ ran' = ran \cup {"split_t_plus"}
    /\ splitted_t_plus' = t_plus
    /\ UNCHANGED <<persistent, history, labels, output, splitted_t_minus,
                   pair_loss, t_plus_loss, t_minus_loss, loss>>

OpSplitTMinus ==
    /\ Ready("split_t_minus") /\ ran' = ran \cup {"split_t_minus"}
    /\ splitted_t_minus' = t_minus
    /\ UNCHANGED <<persistent, history, labels, output, splitted_t_plus,
                   pair_loss, t_plus_loss, t_minus_loss, loss>>

OpPairLoss ==
    /\ Ready("pair_loss") /\ ran' = ran \cup {"pair_loss"}
    /\ pair_loss' = PairLossTable(labels, output, N)
    /\ UNCHANGED <<persistent, history, labels, output, splitted_t_plus,
                   splitted_t_minus, t_plus_loss, t_minus_loss, loss>>

OpTPlusLoss ==
    /\ Ready("t_plus_loss") /\ ran' = ran \cup {"t_plus_loss"}
    /\ t_plus_loss' = TPlusLossList(pair_loss, MinusOperand.val, N, NumPairs(N))
    /\ UNCHANGED <<persistent, history, labels, output, splitted_t_plus,
                   splitted_t_minus, pair_loss, t_minus_loss, loss>>

OpTMinusLoss ==
    /\ Ready("t_minus_loss") /\ ran' = ran \cup {"t_minus_loss"}
    /\ t_minus_loss' = TMinusLossList(pair_loss, PlusOperand.val, N, NumPairs(N))
    /\ UNCHANGED <<persistent, history, labels, output, splitted_t_plus,
                   splitted_t_minus, pair_loss, t_plus_loss, loss>>

OpLoss ==
    /\ Ready("loss") /\ ran' = ran \cup {"loss"}
    /\ loss' = Some(Loss(pair_loss, PlusOperand.val, MinusOperand.val,
                         N, exp.hparams, params))
    /\ UNCHANGED <<persistent, history, labels, output, splitted_t_plus,
                   splitted_t_minus, pair_loss, t_plus_loss, t_minus_loss>>

OpAssignTPlus ==
    /\ Ready("assign_t_plus") /\ ran' = ran \cup {"assign_t_plus"}
    /\ t_plus' = UpdatePropensity(t_minus_loss, N, exp.hparams)
    /\ UNCHANGED <<built, exp, t_minus, global_step, params, history, tensors>>

OpAssignTMinus ==
    /\ Ready("assign_t_minus") /\ ran' = ran \cup {"assign_t_minus"}
    /\ t_minus' = UpdatePropensity(t_plus_loss, N, exp.hparams)
    /\ UNCHANGED <<built, exp, t_plus, global_step, params, history, tensors>>

OpUpdates ==
    /\ Ready("updates") /\ ran' = ran \cup {"updates"}
    /\ params' = Updates(exp.hparams, params, Gradients(pair_loss, exp.hparams),
                         global_step).params
    /\ global_step' = Updates(exp.hparams, params, Gradients(pair_loss, exp.hparams),
                              global_step).global_step
    /\ UNCHANGED <<built, exp, t_plus, t_minus, history, tensors>>

OpTrainSummary ==
    /\ Ready("train_summary") /\ ran' = ran \cup {"train_summary"}
    /\ UNCHANGED <<persistent, history, tensors>>

\* session.run returns once every fetched operation has run; step returns
\* outputs[1], None, outputs[-1].
RunEnd ==
    /\ pc = "running" /\ ran = TrainOps
    /\ pc' = "idle"
    /\ ret' = [kind |-> "train", loss |-> loss, outputs |-> None,
               norm |-> GradientNorm(exp.hparams, Gradients(pair_loss, exp.hparams))]
    /\ n_calls' = n_calls + 1 /\ n_train' = n_train + 1
    /\ UNCHANGED <<persistent, tensors, ran, pre>>

GraphExperiments == { e \in Experiments : ~e.forward_only /\ e.hparams = DefaultHParams }

ConstructGraph == \E e \in GraphExperiments : PairDebias(e)

NextGraph ==
    \/ ConstructGraph \/ RunBegin
    \/ OpSplitTPlus \/ OpSplitTMinus \/ OpPairLoss \/ OpTPlusLoss \/ OpTMinusLoss
    \/ OpLoss \/ OpAssignTPlus \/ OpAssignTMinus \/ OpUpdates \/ OpTrainSummary
    \/ RunEnd

SpecGraph == Init /\ [][NextGraph]_vars

----------------------------------------------------------------------------
(* Properties *)

Trained == n_train >= 1
Ones(n) == [k \in Pos(n) |-> One]

\* The sum of f over the finite set S, in any order.
RECURSIVE FSum(_, _)
FSum(S, f) ==
    IF S = {} THEN Zero
    ELSE LET x == CHOOSE y \in S : TRUE IN FAdd(f[x], FSum(S \ {x}, f))

\* C1: a step with forward_only=True leaves t_plus, t_minus, global_step and
\* the trainable parameters as they were, whatever steps came before it.
EvalStepMutatesNothing ==
    [][(n_calls' = n_calls + 1 /\ ret'.kind = "eval")
        => /\ t_plus' = t_plus /\ t_minus' = t_minus
           /\ global_step' = global_step /\ params' = params]_vars

\* C1 witness: an evaluation came after a train step had moved the state.
EvalAfterTrain ==
    /\ ret.kind = "eval" /\ n_train >= 1 /\ n_calls >= 2
    /\ t_plus # Ones(N) /\ global_step >= 1 /\ params > 1

\* C2 (as claimed): every entry of t_plus and t_minus is positive and finite.
PropensitiesPositiveFinite ==
    built = "train" =>
        \A k \in Pos(N) : /\ IsFinite(t_plus[k]) /\ IsPositive(t_plus[k])
                           /\ IsFinite(t_minus[k]) /\ IsPositive(t_minus[k])

\* C3 (as claimed): after a train step t_plus[0] and t_minus[0] are exactly 1.
PivotIsOne == Trained => (t_plus[0] = One /\ t_minus[0] = One)

\* The last train step divided by a zero accumulator at position 0.
ZeroDenominator == Trained /\ (t_minus_loss[0] = Zero \/ t_plus_loss[0] = Zero)

\* C5: a train step whose t_minus_loss[0] or t_plus_loss[0] is zero completes
\* and returns its loss, leaves a NaN or infinite entry in the stored
\* propensities, and the next train step returns a non-finite loss.
ZeroDenominatorPropagates ==
    /\ [](ZeroDenominator =>
            /\ \E k \in Pos(N) : ~IsFinite(t_plus[k]) \/ ~IsFinite(t_minus[k])
            /\ ret.kind = "train" => (ret.loss # None /\ ret.loss = loss))
    /\ [][(ZeroDenominator /\ n_train' = n_train + 1)
            => (ret'.kind = "train" /\ ~IsFinite(ret'.loss[1]))]_vars

\* C5 witness: the train step after a zero-denominator step has returned.
LossAfterZeroDenominator ==
    /\ n_train = 2 /\ ret.kind = "train"
    /\ \E k \in Pos(N) : ~IsFinite(pre[1][k]) \/ ~IsFinite(pre[2][k])
    /\ IsNaN(ret.loss[1])

\* A known grad_strategy and no negative hyperparameter.
ValidHParams(hp) ==
    /\ hp.grad_strategy = DefaultHParams.grad_strategy
    /\ hp.learning_rate >= 0 /\ hp.regulation_p >= 0 /\ hp.l2_loss >= 0

\* C6 (as claimed): no model with an unknown grad_strategy or a negative
\* hyperparameter gets as far as a step.
InvalidConfigNeverSteps == n_calls > 0 => ValidHParams(exp.hparams)

\* C7: for every ordered pair i # j and batch element the mask is 0 when
\* label_i <= label_j and label_i - label_j otherwise, never negative, and
\* never nonzero in both directions; a pair's loss is zero exactly when its
\* mask is zero on the whole batch.
MaskIsPositivePart ==
    \A i \in DOMAIN labels : \A j \in DOMAIN labels \ {i} : \A b \in DOMAIN labels[i] :
        LET m == valid_pair_mask(labels, i, j, b)
        IN /\ labels[i][b] <= labels[j][b] => m = 0
           /\ labels[i][b] > labels[j][b] => m = labels[i][b] - labels[j][b]
           /\ m >= 0
           /\ ~(m # 0 /\ valid_pair_mask(labels, j, i, b) # 0)
           /\ ret.kind = "train" =>
                 (pair_loss[<<i, j>>] = Zero
                    <=> \A c \in DOMAIN labels[i] : labels[i][c] <= labels[j][c])

\* C7 witness: a train step on a batch of two with pairs valid in one
\* element, in the other, and in neither.
MaskCases ==
    /\ ret.kind = "train" /\ N = 3 /\ BatchSize(labels) = 2
    /\ labels[0][1] = 1 /\ labels[1][1] = 0 /\ labels[2][1] = 0
    /\ labels[0][2] = 0 /\ labels[1][2] = 1 /\ labels[2][2] = 0
    /\ pair_loss[<<0, 1>>] # Zero /\ pair_loss[<<1, 0>>] # Zero
    /\ pair_loss[<<1, 2>>] # Zero /\ pair_loss[<<2, 1>>] = Zero

\* The scenario rank_list_size = 2, one batch element, labels [1, 0],
\* scores [0, 0], regulation_p = 2, propensities all 1 before the step.
Scenario ==
    /\ ret.kind = "train" /\ N = 2 /\ exp.hparams.regulation_p = 2
    /\ BatchSize(labels) = 1
    /\ labels[0][1] = 1 /\ labels[1][1] = 0
    /\ output[0][1] = 0 /\ output[1][1] = 0
    /\ pre = <<Ones(2), Ones(2)>>

\* The masks, pair losses and accumulators of the scenario.
ScenarioLosses ==
    LET L == pairwise_cross_entropy_loss(0, 0)
    IN /\ valid_pair_mask(labels, 0, 1, 1) = 1 /\ valid_pair_mask(labels, 1, 0, 1) = 0
       /\ pair_loss[<<0, 1>>] = L /\ pair_loss[<<1, 0>>] = Zero
       /\ t_plus_loss[0] = L /\ t_plus_loss[1] = Zero
       /\ t_minus_loss[0] = Zero /\ t_minus_loss[1] = L

AccumulatorsArePairSums ==
    Trained =>
        LET tp == splitted_t_plus
            tm == splitted_t_minus
            total == FSum(OrderedPairs(N),
                          [pr \in OrderedPairs(N) |->
                              FDiv(pair_loss[pr], FMul(tp[pr[1]], tm[pr[2]]))])
        IN /\ \A k \in Pos(N) :
                t_plus_loss[k] = FSum(Pos(N) \ {k},
                                      [j \in Pos(N) \ {k} |-> FDiv(pair_loss[<<k, j>>], tm[j])])
           /\ \A k \in Pos(N) :
                t_minus_loss[k] = FSum(Pos(N) \ {k},
                                       [i \in Pos(N) \ {k} |-> FDiv(pair_loss[<<i, k>>], tp[i])])
           /\ exp.hparams.l2_loss <= 0 => loss = Some(total)
           /\ (exp.hparams.l2_loss <= 0 /\ tp = Ones(N) /\ tm = Ones(N)) =>
                 /\ FSum(Pos(N), t_plus_loss) = total
                 /\ FSum(Pos(N), t_minus_loss) = total

\* C9 witness: three pairs contribute, under propensities that are finite,
\* positive and not all 1.
ThreePairsContribute ==
    /\ Trained /\ N = 3
    /\ Cardinality({pr \in OrderedPairs(3) : pair_loss[pr] # Zero}) >= 3
    /\ \A k \in Pos(3) : /\ IsFinite(splitted_t_plus[k]) /\ IsPositive(splitted_t_plus[k])
                         /\ IsFinite(splitted_t_minus[k]) /\ IsPositive(splitted_t_minus[k])
    /\ splitted_t_plus # Ones(3) /\ splitted_t_minus # Ones(3)
    /\ splitted_t_minus[1] # splitted_t_minus[2]

\* C10: global_step is the number of train steps completed, with and
\* without gradient clipping; evaluations do not move it.
GlobalStepCountsTrainSteps == global_step = n_train

\* C10 witness: a train step and an evaluation, clipping disabled.
TrainAndEvalUnclipped ==
    /\ n_train = 1 /\ n_calls = 2 /\ global_step = 1
    /\ exp.hparams.max_gradient_norm <= 0

=============================================================================
